---- MODULE Spec2Model ----
(***************************************************************************)
(* The layered configuration loader of linux-wave                          *)
(* (src/internal/config/config.go): DefaultConfig, Load, LoadFromPath,     *)
(* loadFromPath, mergeConfigs, Config.Validate and expandPath.             *)
(*                                                                         *)
(* Representation.                                                         *)
(*   - A Go string is a sequence of one-character strings, so that         *)
(*     filepath.IsAbs, strings.HasPrefix, strings.ToUpper and              *)
(*     strings.ToLower are computed character by character.                *)
(*   - A Go float64 is a record [nan, h]: h is the value in hundredths     *)
(*     (0.85 is h = 85) and nan marks IEEE-754 NaN, which the YAML decoder *)
(*     produces for the scalar `.nan`.  Comparisons follow Go: every       *)
(*     ordered comparison with NaN is false, and NaN != x is true.         *)
(*   - A *Config is a sequence: <<>> is nil, <<c>> points to c.            *)
(*   - A YAML document is a function from the dotted keys it mentions to   *)
(*     their values; a key it does not mention is not in its domain.       *)
(***************************************************************************)
EXTENDS Integers, Sequences, FiniteSets, TLC

VARIABLES
    pc,        \* position of the running entry point
    op,        \* which entry point runs: "none", "Load", "LoadFromPath"
    sysFile,   \* the file at systemConfigPath
    userFile,  \* the file at ~/.config/linux-wave/config.yaml
    pathFile,  \* the file at the explicit path given to LoadFromPath
    homeOK,    \* whether os.UserHomeDir succeeds
    exists,    \* the sound-file paths for which os.Stat succeeds
    cfg,       \* the local variable cfg of Load / LoadFromPath
    ret,       \* the returned *Config
    err,       \* the returned error
    log,       \* the stages run so far, in order
    ucall,     \* unit call made: "none", "Validate", "mergeConfigs", "RoundTrip", "MergeFile"
    ua,        \* unit call: first argument (receiver / base / original)
    ub,        \* unit call: second argument (override), decoded
    udoc,      \* unit call: the document the override was decoded from
    ures,      \* unit call: the returned Config
    uerrs,     \* unit call: the list of errors Validate joined
    heap,      \* the Config objects allocated so far: a *Config is an index
    held,      \* the pointers the caller holds
    hcall,     \* the last call of mergeConfigs: its pointers and what they pointed to
    hrets,     \* the pointers Load returned, each with the Config it pointed to then
    hlog       \* the calls made on the heap, in order

vars == <<pc, op, sysFile, userFile, pathFile, homeOK, exists, cfg, ret, err, log,
          ucall, ua, ub, udoc, ures, uerrs, heap, held, hcall, hrets, hlog>>

loadVars == <<pc, op, sysFile, userFile, pathFile, homeOK, exists, cfg, ret, err, log>>
unitVars == <<ucall, ua, ub, udoc, ures, uerrs>>
heapVars == <<heap, held, hcall, hrets, hlog>>

---------------------------------------------------------------------------
(* Bounds *)

\* The largest number of keys the documents of one run mention in total.
MaxKeys == 2

\* The largest number of calls a caller makes on the heap.
MaxCalls == 4

---------------------------------------------------------------------------
(* Strings *)

LowerChars == <<"a","b","c","d","e","f","g","h","i","j","k","l","m",
                "n","o","p","q","r","s","t","u","v","w","x","y","z">>
UpperChars == <<"A","B","C","D","E","F","G","H","I","J","K","L","M",
                "N","O","P","Q","R","S","T","U","V","W","X","Y","Z">>

ToUpperChar(ch) ==
    IF \E i \in DOMAIN LowerChars : LowerChars[i] = ch
    THEN UpperChars[CHOOSE i \in DOMAIN LowerChars : LowerChars[i] = ch]
    ELSE ch

ToLowerChar(ch) ==
    IF \E i \in DOMAIN UpperChars : UpperChars[i] = ch
    THEN LowerChars[CHOOSE i \in DOMAIN UpperChars : UpperChars[i] = ch]
    ELSE ch

ToUpper(s) == [i \in DOMAIN s |-> ToUpperChar(s[i])]
ToLower(s) == [i \in DOMAIN s |-> ToLowerChar(s[i])]

HasPrefix(s, p) == Len(s) >= Len(p) /\ SubSeq(s, 1, Len(p)) = p

\* filepath.IsAbs on Linux: the path begins with a slash
IsAbs(s) == HasPrefix(s, <<"/">>)

EmptyStr == <<>>

S_INFO  == <<"I","N","F","O">>
S_DEBUG == <<"D","E","B","U","G">>
S_WARN  == <<"W","A","R","N">>
S_ERROR == <<"E","R","R","O","R">>
S_debug == <<"d","e","b","u","g">>
S_TRACE == <<"T","R","A","C","E">>
S_json  == <<"j","s","o","n">>
S_text  == <<"t","e","x","t">>
S_test  == <<"t","e","s","t">>
S_JSON  == <<"J","S","O","N">>
S_xml   == <<"x","m","l">>
S_sock  == <<"/","s">>
S_rel   == <<"r","e","l">>
S_wav   == <<"/","a",".","w","a","v">>
S_runSock == <<"/","r","u","n","/","l","i","n","u","x","-","w","a","v","e",
               "/","a","u","t","h",".","s","o","c","k">>

---------------------------------------------------------------------------
(* float64 *)

F(h) == [nan |-> FALSE, h |-> h]
NaN  == [nan |-> TRUE, h |-> 0]

FLt(a, b) == ~a.nan /\ ~b.nan /\ a.h < b.h
FGt(a, b) == ~a.nan /\ ~b.nan /\ a.h > b.h
FLe(a, b) == ~a.nan /\ ~b.nan /\ a.h <= b.h
FNe(a, b) == a.nan \/ b.nan \/ a.h # b.h

---------------------------------------------------------------------------
(* Config and DefaultConfig *)

\* The thirteen fields in the order the struct declares them
MkConfig(to, ra, sp, lv, fm, en, vo, ss, sf, lr, mt, ma, ld) ==
    [Service  |-> [Timeout |-> to, RetryAttempts |-> ra, SocketPath |-> sp],
     Logging  |-> [Level |-> lv, Format |-> fm],
     Audio    |-> [Enabled |-> en, Volume |-> vo,
                   CustomSoundSuccess |-> ss, CustomSoundFailure |-> sf],
     Security |-> [LivenessRequired |-> lr, MatchThreshold |-> mt,
                   MaxAuthAttempts |-> ma, LockoutDuration |-> ld]]

\* &Config{}: every field at its type's zero value
ZeroConfig ==
    MkConfig(0, 0, EmptyStr, EmptyStr, EmptyStr, FALSE, 0, EmptyStr, EmptyStr,
             FALSE, F(0), 0, 0)

DefaultConfig ==
    MkConfig(10, 3, S_runSock, S_INFO, S_test, TRUE, 50, EmptyStr, EmptyStr,
             TRUE, F(85), 3, 300)

---------------------------------------------------------------------------
(* YAML documents and yaml.Unmarshal *)

Keys == {"service.timeout", "service.retry_attempts", "service.socket_path",
         "logging.level", "logging.format",
         "audio.enabled", "audio.volume",
         "audio.custom_sound_success", "audio.custom_sound_failure",
         "security.liveness_required", "security.match_threshold",
         "security.max_auth_attempts", "security.lockout_duration"}

BoolKeys == {"audio.enabled", "security.liveness_required"}

\* The values a document may give each key: the zero value, values in range
\* and values out of range.
Vals(k) ==
    CASE k = "service.timeout"              -> {0, 20, 61}
      [] k = "service.retry_attempts"       -> {0, 5, 11}
      [] k = "service.socket_path"          -> {EmptyStr, S_sock, S_rel}
      [] k = "logging.level"                -> {EmptyStr, S_debug, S_TRACE}
      [] k = "logging.format"               -> {EmptyStr, S_text, S_JSON, S_xml}
      [] k = "audio.enabled"                -> BOOLEAN
      [] k = "audio.volume"                 -> {-1, 0, 75, 150}
      [] k = "audio.custom_sound_success"   -> {EmptyStr, S_wav}
      [] k = "audio.custom_sound_failure"   -> {EmptyStr, S_wav}
      [] k = "security.liveness_required"   -> BOOLEAN
      [] k = "security.match_threshold"     -> {F(0), F(50), F(150), NaN}
      [] k = "security.max_auth_attempts"   -> {0, 5, 21}
      [] k = "security.lockout_duration"    -> {-1, 0, 600, 3601}

EmptyDoc == [k \in {} |-> 0]

RECURSIVE DocsOver(_)
DocsOver(K) ==
    IF K = {} THEN {EmptyDoc}
    ELSE LET k == CHOOSE x \in K : TRUE
         IN  {(k :> v) @@ d : v \in Vals(k), d \in DocsOver(K \ {k})}

DocsOfSize(n) == UNION {DocsOver(K) : K \in {X \in SUBSET Keys : Cardinality(X) = n}}
DocsUpTo(n)   == UNION {DocsOfSize(i) : i \in 0..n}

Field(doc, k, old) == IF k \in DOMAIN doc THEN doc[k] ELSE old

\* yaml.Unmarshal(data, dst) for a well-formed document: the keys the document
\* mentions are stored into dst, every other field of dst is left as it was.
Unmarshal(doc, dst) ==
    MkConfig(Field(doc, "service.timeout", dst.Service.Timeout),
             Field(doc, "service.retry_attempts", dst.Service.RetryAttempts),
             Field(doc, "service.socket_path", dst.Service.SocketPath),
             Field(doc, "logging.level", dst.Logging.Level),
             Field(doc, "logging.format", dst.Logging.Format),
             Field(doc, "audio.enabled", dst.Audio.Enabled),
             Field(doc, "audio.volume", dst.Audio.Volume),
             Field(doc, "audio.custom_sound_success", dst.Audio.CustomSoundSuccess),
             Field(doc, "audio.custom_sound_failure", dst.Audio.CustomSoundFailure),
             Field(doc, "security.liveness_required", dst.Security.LivenessRequired),
             Field(doc, "security.match_threshold", dst.Security.MatchThreshold),
             Field(doc, "security.max_auth_attempts", dst.Security.MaxAuthAttempts),
             Field(doc, "security.lockout_duration", dst.Security.LockoutDuration))

\* The value of the field of c that key k names
Get(c, k) ==
    CASE k = "service.timeout"              -> c.Service.Timeout
      [] k = "service.retry_attempts"       -> c.Service.RetryAttempts
      [] k = "service.socket_path"          -> c.Service.SocketPath
      [] k = "logging.level"                -> c.Logging.Level
      [] k = "logging.format"               -> c.Logging.Format
      [] k = "audio.enabled"                -> c.Audio.Enabled
      [] k = "audio.volume"                 -> c.Audio.Volume
      [] k = "audio.custom_sound_success"   -> c.Audio.CustomSoundSuccess
      [] k = "audio.custom_sound_failure"   -> c.Audio.CustomSoundFailure
      [] k = "security.liveness_required"   -> c.Security.LivenessRequired
      [] k = "security.match_threshold"     -> c.Security.MatchThreshold
      [] k = "security.max_auth_attempts"   -> c.Security.MaxAuthAttempts
      [] k = "security.lockout_duration"    -> c.Security.LockoutDuration

---------------------------------------------------------------------------
(* mergeConfigs *)

\* A merge that never lets an integer of the override through
MergeIntKeepsBase(b, o) == b

\* if override.X != 0 { result.X = override.X }
MergeInt(b, o) == IF o # 0 THEN o ELSE b

\* A merge whose arguments are swapped: a string the base has set wins
MergeStrBaseWins(b, o) == IF b # EmptyStr THEN b ELSE o

\* if override.X != "" { result.X = override.X }
MergeStr(b, o) == IF o # EmptyStr THEN o ELSE b

\* if override.Security.MatchThreshold != 0 { ... }
MergeFloat(b, o) == IF FNe(o, F(0)) THEN o ELSE b

\* A merge that treats false as "not set", as the scalar fields treat zero
MergeBoolZeroRule(b, o) == IF o # FALSE THEN o ELSE b

\* if override.X != base.X { result.X = override.X }
MergeBool(b, o) == IF o # b THEN o ELSE b

MergeConfigs(base, override) ==
    MkConfig(MergeInt(base.Service.Timeout, override.Service.Timeout),
             MergeInt(base.Service.RetryAttempts, override.Service.RetryAttempts),
             MergeStr(base.Service.SocketPath, override.Service.SocketPath),
             MergeStr(base.Logging.Level, override.Logging.Level),
             MergeStr(base.Logging.Format, override.Logging.Format),
             MergeBool(base.Audio.Enabled, override.Audio.Enabled),
             MergeInt(base.Audio.Volume, override.Audio.Volume),
             MergeStr(base.Audio.CustomSoundSuccess, override.Audio.CustomSoundSuccess),
             MergeStr(base.Audio.CustomSoundFailure, override.Audio.CustomSoundFailure),
             MergeBool(base.Security.LivenessRequired, override.Security.LivenessRequired),
             MergeFloat(base.Security.MatchThreshold, override.Security.MatchThreshold),
             MergeInt(base.Security.MaxAuthAttempts, override.Security.MaxAuthAttempts),
             MergeInt(base.Security.LockoutDuration, override.Security.LockoutDuration))

---------------------------------------------------------------------------
(* Config.Validate *)

validLogLevels  == {S_DEBUG, S_INFO, S_WARN, S_ERROR}
validLogFormats == {S_json, S_text}

\* os.Stat(path) returns no error
StatOK(path, ex) == path \in ex

\* A validator that stops at the first violation it finds
AppendIfFirst(errs, violated, e) == IF violated /\ errs = <<>> THEN <<e>> ELSE errs

\* errs = append(errs, e) when the check finds a violation
AppendIf(errs, violated, e) == IF violated THEN Append(errs, e) ELSE errs

\* The list errs at line 295: one entry per failed check, in the order the
\* checks run.  An entry is the message of the error (without the path that
\* the two custom-sound messages end with).
Validate(c, ex) ==
    LET e1  == AppendIf(<<>>, c.Service.Timeout <= 0 \/ c.Service.Timeout > 60,
                        "timeout must be between 1 and 60 seconds")
        e2  == AppendIf(e1, c.Service.RetryAttempts < 1 \/ c.Service.RetryAttempts > 10,
                        "retry_attempts must be between 1 and 10")
        e3  == IF c.Service.SocketPath = EmptyStr
               THEN Append(e2, "socket_path must not be empty")
               ELSE AppendIf(e2, ~IsAbs(c.Service.SocketPath),
                             "socket_path must be an absolute path")
        e4  == AppendIf(e3, ToUpper(c.Logging.Level) \notin validLogLevels, "log_level must be DEBUG, INFO, WARN, or ERROR")
        e5  == AppendIf(e4, ToLower(c.Logging.Format) \notin validLogFormats, "log_format must be 'json' or 'text'")
        e6  == AppendIf(e5, c.Audio.Volume < 0 \/ c.Audio.Volume > 100, "audio_volume must be between 0 and 100")
        e7  == AppendIf(e6, c.Audio.CustomSoundSuccess # EmptyStr
                            /\ ~StatOK(c.Audio.CustomSoundSuccess, ex),
                        "custom_sound_success file not found")
        e8  == AppendIf(e7, c.Audio.CustomSoundFailure # EmptyStr
                            /\ ~StatOK(c.Audio.CustomSoundFailure, ex),
                        "custom_sound_failure file not found")
        e9  == AppendIf(e8, FLt(c.Security.MatchThreshold, F(0))
                            \/ FGt(c.Security.MatchThreshold, F(100)),
                        "match_threshold must be between 0.0 and 1.0")
        e10 == AppendIf(e9, c.Security.MaxAuthAttempts < 1
                            \/ c.Security.MaxAuthAttempts > 20,
                        "max_auth_attempts must be between 1 and 20")
        e11 == AppendIf(e10, c.Security.LockoutDuration < 0
                             \/ c.Security.LockoutDuration > 3600,
                        "lockout_duration must be between 0 and 3600")
    IN  e11


---------------------------------------------------------------------------
(* The filesystem *)

\* A file is [kind, doc].  kind "ok": a well-formed document doc.
\* "ENOENT": no such file.  "EACCES": os.Stat fails with another error than
\* "does not exist" (a directory on the way is not searchable).  "unreadable":
\* os.Stat succeeds and os.ReadFile fails.  "malformed": the bytes are read and
\* yaml.Unmarshal fails.
File(kind, doc) == [kind |-> kind, doc |-> doc]

Absent == File("ENOENT", EmptyDoc)
BrokenFiles == {File(k, EmptyDoc) : k \in {"EACCES", "unreadable", "malformed"}}

\* The files of a given size: the size of a well-formed file is the number of
\* keys its document mentions; an absent file has size 0 and a file that
\* cannot be reached, read or parsed has size 1.
FilesOfSize(n) ==
    {File("ok", d) : d \in DocsOfSize(n)}
        \cup (IF n = 0 THEN {Absent} ELSE {})
        \cup (IF n = 1 THEN BrokenFiles ELSE {})
FilesUpTo(n) == UNION {FilesOfSize(i) : i \in 0..n}

SoundPaths == {S_wav}
SoundKeys == {"audio.custom_sound_success", "audio.custom_sound_failure"}

\* The sound-file paths a file names: os.Stat is called on no other path
SoundsIn(f) == {f.doc[k] : k \in DOMAIN f.doc \cap SoundKeys} \cap SoundPaths

\* _, err := os.Stat(path); err == nil
StatFile(f) == f.kind \in {"ok", "unreadable", "malformed"}

\* data, err := os.ReadFile(path); err == nil
ReadFileOK(f) == f.kind \in {"ok", "malformed"}

S_home == <<"/","h">>
S_tilde == <<"~">>
S_userConfigPath ==
    <<"~","/",".","c","o","n","f","i","g","/","l","i","n","u","x","-","w","a","v","e",
      "/","c","o","n","f","i","g",".","y","a","m","l">>
S_absPath == <<"/","c",".","y","a","m","l">>
S_tildePath == <<"~","/","c",".","y","a","m","l">>

\* expandPath: [err, path].  The paths of the model hold no $, so os.ExpandEnv
\* returns its argument.
expandPath(path, home) ==
    IF HasPrefix(path, S_tilde)
    THEN IF home
         THEN [err |-> <<>>, path |-> S_home \o Tail(path)]
         ELSE [err |-> <<"failed to get user home directory">>, path |-> EmptyStr]
    ELSE [err |-> <<>>, path |-> path]

\* loadFromPath(path, cfg): [err, cfg], f the file at path and dst the *cfg
loadFromPath(f, dst) ==
    IF ~ReadFileOK(f) THEN [err |-> <<"failed to read file">>, cfg |-> dst]
    ELSE IF f.kind = "malformed" THEN [err |-> <<"failed to parse YAML">>, cfg |-> dst]
    ELSE [err |-> <<>>, cfg |-> Unmarshal(f.doc, dst)]

---------------------------------------------------------------------------
(* Load *)

\* No call of mergeConfigs was made on the heap
NoCall == [kind |-> "none", base |-> 0, over |-> 0, res |-> 0,
           baseBefore |-> ZeroConfig, overBefore |-> ZeroConfig, lenBefore |-> 0]

Init ==
    /\ pc = "idle" /\ op = "none"
    /\ sysFile = Absent
    /\ userFile = Absent
    /\ pathFile = Absent
    /\ homeOK = TRUE
    /\ exists = {}
    /\ cfg = ZeroConfig
    /\ ret = <<>> /\ err = <<>> /\ log = <<>>
    /\ ucall = "none"
    /\ ua = ZeroConfig /\ ub = ZeroConfig /\ udoc = EmptyDoc
    /\ ures = ZeroConfig /\ uerrs = <<>>
    /\ heap = <<>> /\ held = {} /\ hrets = <<>> /\ hlog = <<>>
    /\ hcall = NoCall

\* return nil, fmt.Errorf(msg + ": %w", e)
Fail(stage, msg, e) ==
    /\ pc' = "done"
    /\ ret' = <<>>
    /\ err' = <<msg>> \o e
    /\ log' = log \o <<stage, "Failure">>

\* The system file and the user file of a run: together their documents
\* mention at most MaxKeys keys.
OverlayFiles ==
    UNION {FilesOfSize(n) \X FilesUpTo(MaxKeys - n) : n \in 0..MaxKeys}

\* The file LoadFromPath is given
PathFiles == FilesUpTo(MaxKeys)

\* Load is called (line 113) with the filesystem as it is at the call
LoadBegin ==
    /\ pc = "idle" /\ ucall = "none"
    /\ \E p \in OverlayFiles :
            /\ sysFile' = p[1]
            /\ userFile' = p[2]
    /\ homeOK' \in BOOLEAN
    /\ exists' \in SUBSET (SoundsIn(sysFile') \cup SoundsIn(userFile'))
    /\ op' = "Load"
    /\ cfg' = DefaultConfig
    /\ pc' = "system"
    /\ log' = <<"Defaults">>
    /\ UNCHANGED <<pathFile, ret, err>>
    /\ UNCHANGED unitVars
    /\ UNCHANGED heapVars

\* lines 116-122
LoadSystemOverlay ==
    /\ pc = "system"
    /\ IF StatFile(sysFile)
       THEN LET r == loadFromPath(sysFile, ZeroConfig)
            IN  IF r.err # <<>>
                THEN /\ Fail("SystemOverlay", "failed to load system config", r.err)
                     /\ UNCHANGED cfg
                ELSE /\ cfg' = MergeConfigs(cfg, r.cfg)
                     /\ pc' = "user"
                     /\ log' = Append(log, "SystemOverlay")
                     /\ UNCHANGED <<ret, err>>
       ELSE /\ pc' = "user"
            /\ log' = Append(log, "SystemSkipped")
            /\ UNCHANGED <<cfg, ret, err>>
    /\ UNCHANGED <<op, sysFile, userFile, pathFile, homeOK, exists>>
    /\ UNCHANGED unitVars
    /\ UNCHANGED heapVars

\* lines 125-136
LoadUserOverlay ==
    /\ pc = "user"
    /\ LET x == expandPath(S_userConfigPath, homeOK)
       IN  IF x.err # <<>>
           THEN /\ Fail("UserOverlay", "failed to expand user config path", x.err)
                /\ UNCHANGED cfg
           ELSE IF StatFile(userFile)
           THEN LET r == loadFromPath(userFile, ZeroConfig)
                IN  IF r.err # <<>>
                    THEN /\ Fail("UserOverlay", "failed to load user config", r.err)
                         /\ UNCHANGED cfg
                    ELSE /\ cfg' = MergeConfigs(cfg, r.cfg)
                         /\ pc' = "validate"
                         /\ log' = Append(log, "UserOverlay")
                         /\ UNCHANGED <<ret, err>>
           ELSE /\ pc' = "validate"
                /\ log' = Append(log, "UserSkipped")
                /\ UNCHANGED <<cfg, ret, err>>
    /\ UNCHANGED <<op, sysFile, userFile, pathFile, homeOK, exists>>
    /\ UNCHANGED unitVars
    /\ UNCHANGED heapVars

\* lines 139-143
LoadValidate ==
    /\ pc = "validate"
    /\ LET e == Validate(cfg, exists)
       IN  IF e # <<>>
           THEN Fail("Validate", "configuration validation failed", e)
           ELSE /\ pc' = "done"
                /\ ret' = <<cfg>>
                /\ err' = <<>>
                /\ log' = log \o <<"Validate", "Success">>
    /\ UNCHANGED <<op, sysFile, userFile, pathFile, homeOK, exists, cfg>>
    /\ UNCHANGED unitVars
    /\ UNCHANGED heapVars

---------------------------------------------------------------------------
(* LoadFromPath *)

\* LoadFromPath(path) is called: lines 149-154
LoadFromPathBegin ==
    /\ pc = "idle" /\ ucall = "none"
    /\ pathFile' \in PathFiles
    /\ homeOK' \in BOOLEAN
    /\ exists' \in SUBSET SoundsIn(pathFile')
    /\ op' = "LoadFromPath"
    /\ cfg' = DefaultConfig
    /\ \E path \in {S_absPath, S_tildePath} :
         LET x == expandPath(path, homeOK')
         IN  IF x.err # <<>>
             THEN /\ pc' = "done"
                  /\ ret' = <<>>
                  /\ err' = <<"failed to expand path">> \o x.err
                  /\ log' = <<"Defaults", "Failure">>
             ELSE /\ pc' = "read"
                  /\ log' = <<"Defaults">>
                  /\ UNCHANGED <<ret, err>>
    /\ UNCHANGED <<sysFile, userFile>>
    /\ UNCHANGED unitVars
    /\ UNCHANGED heapVars

\* lines 156-158: the document is decoded into the defaults themselves
LoadFromPathRead ==
    /\ pc = "read"
    /\ LET r == loadFromPath(pathFile, cfg)
       IN  IF r.err # <<>>
           THEN /\ Fail("FileOverlay", "failed to load config", r.err)
                /\ UNCHANGED cfg
           ELSE /\ cfg' = r.cfg
                /\ pc' = "validate1"
                /\ log' = Append(log, "FileOverlay")
                /\ UNCHANGED <<ret, err>>
    /\ UNCHANGED <<op, sysFile, userFile, pathFile, homeOK, exists>>
    /\ UNCHANGED unitVars
    /\ UNCHANGED heapVars

\* lines 160-164
LoadFromPathValidate ==
    /\ pc = "validate1"
    /\ LET e == Validate(cfg, exists)
       IN  IF e # <<>>
           THEN Fail("Validate", "configuration validation failed", e)
           ELSE /\ pc' = "done"
                /\ ret' = <<cfg>>
                /\ err' = <<>>
                /\ log' = log \o <<"Validate", "Success">>
    /\ UNCHANGED <<op, sysFile, userFile, pathFile, homeOK, exists, cfg>>
    /\ UNCHANGED unitVars
    /\ UNCHANGED heapVars

---------------------------------------------------------------------------
(* Direct calls of Validate and mergeConfigs *)

\* The defaults as the glossary of the specification lists them
SpecDefaults ==
    MkConfig(10, 3, S_runSock, S_INFO, S_text, TRUE, 50, EmptyStr, EmptyStr,
             TRUE, F(85), 3, 300)

\* Configurations that differ from a base in the fields a document names
ConfigsNear(bases, n) == {Unmarshal(d, b) : d \in DocsUpTo(n), b \in bases}

ValidateInputs == ConfigsNear({DefaultConfig, SpecDefaults}, MaxKeys)

\* Arguments of a direct call of mergeConfigs
MergeArgs == ConfigsNear({DefaultConfig, ZeroConfig}, 1)

\* A base and an overlay document: together the fields in which the base
\* differs from the defaults or from zero, and the keys of the document, are
\* at most MaxKeys.
MergeFileArgs ==
    UNION {ConfigsNear({DefaultConfig, ZeroConfig}, n) \X DocsUpTo(MaxKeys - n)
           : n \in 0..MaxKeys}

UnitIdle == pc = "idle" /\ ucall = "none"

\* c.Validate() on any Config
ValidateCall ==
    /\ UnitIdle
    /\ \E c \in ValidateInputs :
         \E ex \in SUBSET SoundPaths :
            /\ ucall' = "Validate"
            /\ ua' = c
            /\ exists' = ex
            /\ uerrs' = Validate(c, ex)
    /\ UNCHANGED <<ub, udoc, ures>>
    /\ UNCHANGED <<pc, op, sysFile, userFile, pathFile, homeOK, cfg, ret, err, log>>
    /\ UNCHANGED heapVars

\* mergeConfigs(base, override) on any two Configs
MergeCall ==
    /\ UnitIdle
    /\ \E base \in MergeArgs, override \in MergeArgs :
            /\ ucall' = "mergeConfigs"
            /\ ua' = base
            /\ ub' = override
            /\ ures' = MergeConfigs(base, override)
    /\ UNCHANGED <<udoc, uerrs>>
    /\ UNCHANGED loadVars
    /\ UNCHANGED heapVars

\* An overlay step of Load on any base: lines 117-121 and 131-135
MergeFileCall ==
    /\ UnitIdle
    /\ \E a \in MergeFileArgs :
            /\ ucall' = "MergeFile"
            /\ ua' = a[1]
            /\ udoc' = a[2]
            /\ ub' = loadFromPath(File("ok", a[2]), ZeroConfig).cfg
            /\ ures' = MergeConfigs(a[1], ub')
    /\ UNCHANGED uerrs
    /\ UNCHANGED loadVars
    /\ UNCHANGED heapVars

\* Every section value of c written into a document: each key is mentioned
Encode(c) == [k \in Keys |-> Get(c, k)]

\* A Config that passes Validate is written out as a document, and the document
\* is loaded by the File Loader into a fresh Config and merged over the defaults
RoundTripCall ==
    /\ UnitIdle
    /\ \E c \in ValidateInputs :
         \E ex \in SUBSET SoundPaths :
            /\ Validate(c, ex) = <<>>
            /\ ucall' = "RoundTrip"
            /\ ua' = c
            /\ exists' = ex
            /\ udoc' = Encode(c)
            /\ ub' = loadFromPath(File("ok", udoc'), ZeroConfig).cfg
            /\ ures' = MergeConfigs(DefaultConfig, ub')
    /\ UNCHANGED uerrs
    /\ UNCHANGED <<pc, op, sysFile, userFile, pathFile, homeOK, cfg, ret, err, log>>
    /\ UNCHANGED heapVars

Next ==
    \/ LoadBegin
    \/ LoadSystemOverlay
    \/ LoadUserOverlay
    \/ LoadValidate
    \/ LoadFromPathBegin
    \/ LoadFromPathRead
    \/ LoadFromPathValidate
    \/ ValidateCall
    \/ MergeCall
    \/ MergeFileCall
    \/ RoundTripCall

Spec == Init /\ [][Next]_vars


---------------------------------------------------------------------------
(* Pointers: mergeConfigs and Load on a heap of Config objects *)

\* return &Config{...}: a new object holding c; res is its address
New(h, c) == [heap |-> Append(h, c), res |-> Len(h) + 1]

\* A merge that writes into the object base points to and returns base
mergeConfigsInPlace(h, b, o) ==
    [heap |-> [h EXCEPT ![b] = MergeConfigs(h[b], h[o])], res |-> b]

\* mergeConfigs(base, override) with base and override pointers b and o:
\* result := *base copies the struct, whose fields hold no pointer, and
\* &result is a new object
mergeConfigsAt(h, b, o) == New(h, MergeConfigs(h[b], h[o]))

\* One overlay step of Load, lines 116-122 and 130-136, from st = [heap, res,
\* failed]: res points to cfg
OverlayAt(st, f) ==
    IF st.failed \/ ~StatFile(f) THEN st
    ELSE LET z == New(st.heap, ZeroConfig)
             r == loadFromPath(f, ZeroConfig)
         IN  IF r.err # <<>>
             THEN [heap |-> z.heap, res |-> 0, failed |-> TRUE]
             ELSE LET m == mergeConfigsAt([z.heap EXCEPT ![z.res] = r.cfg], st.res, z.res)
                  IN  [heap |-> m.heap, res |-> m.res, failed |-> FALSE]

\* Load(): [heap, res], res the returned pointer and 0 for nil
LoadAt(h, sys, user, home, ex) ==
    LET d  == New(h, DefaultConfig)
        s1 == OverlayAt([heap |-> d.heap, res |-> d.res, failed |-> FALSE], sys)
        s2 == IF ~s1.failed /\ expandPath(S_userConfigPath, home).err # <<>>
              THEN [heap |-> s1.heap, res |-> 0, failed |-> TRUE]
              ELSE OverlayAt(s1, user)
    IN  IF s2.failed THEN [heap |-> s2.heap, res |-> 0]
        ELSE IF Validate(s2.heap[s2.res], ex) # <<>> THEN [heap |-> s2.heap, res |-> 0]
        ELSE [heap |-> s2.heap, res |-> s2.res]

\* The objects the caller starts with: a base and an override
CallerConfigs == <<SpecDefaults, Unmarshal(("service.timeout" :> 20), ZeroConfig)>>

\* The system file and the user file of the calls of Load on the heap: none
\* (validation fails on the default format), one or two well-formed overlays
\* (Load returns a Configuration), and an overlay that cannot be parsed
HeapFiles ==
    LET good == File("ok", ("logging.format" :> S_text))
    IN  {<<Absent, Absent>>, <<good, Absent>>, <<good, good>>,
         <<good, File("malformed", EmptyDoc)>>}

HInit ==
    /\ pc = "idle" /\ op = "none"
    /\ sysFile = Absent /\ userFile = Absent /\ pathFile = Absent
    /\ homeOK = TRUE /\ exists = {}
    /\ cfg = ZeroConfig /\ ret = <<>> /\ err = <<>> /\ log = <<>>
    /\ ucall = "none"
    /\ ua = ZeroConfig /\ ub = ZeroConfig /\ udoc = EmptyDoc
    /\ ures = ZeroConfig /\ uerrs = <<>>
    /\ heap = CallerConfigs
    /\ held = {1, 2}
    /\ hcall = NoCall
    /\ hrets = <<>>
    /\ hlog = <<>>

\* result := mergeConfigs(base, override) on two pointers the caller holds
HMerge ==
    /\ Len(hlog) < MaxCalls
    /\ \E b \in held, o \in held :
         LET m == mergeConfigsAt(heap, b, o)
         IN  /\ heap' = m.heap
             /\ held' = held \cup {m.res}
             /\ hcall' = [kind |-> "merge", base |-> b, over |-> o, res |-> m.res,
                          baseBefore |-> heap[b], overBefore |-> heap[o],
                          lenBefore |-> Len(heap)]
    /\ hlog' = Append(hlog, "merge")
    /\ UNCHANGED hrets
    /\ UNCHANGED <<loadVars, unitVars>>

\* The caller changes the result of the last merge: result.Service.Timeout = 59
HMutate ==
    /\ Len(hlog) < MaxCalls
    /\ hcall.kind = "merge"
    /\ heap[hcall.res].Service.Timeout # 59
    /\ heap' = [heap EXCEPT ![hcall.res].Service.Timeout = 59]
    /\ hlog' = Append(hlog, "mutate")
    /\ UNCHANGED <<held, hcall, hrets>>
    /\ UNCHANGED <<loadVars, unitVars>>

\* cfg, err := Load(): the caller keeps the pointer of a successful call
HLoad ==
    /\ Len(hlog) < MaxCalls
    /\ \E f \in HeapFiles :
         LET r == LoadAt(heap, f[1], f[2], TRUE, {})
         IN  /\ heap' = r.heap
             /\ IF r.res # 0
                THEN /\ held' = held \cup {r.res}
                     /\ hrets' = Append(hrets, [addr |-> r.res, val |-> r.heap[r.res]])
                     /\ hlog' = Append(hlog, "Load ok")
                ELSE /\ hlog' = Append(hlog, "Load failed")
                     /\ UNCHANGED <<held, hrets>>
    /\ UNCHANGED hcall
    /\ UNCHANGED <<loadVars, unitVars>>

HNext ==
    \/ HMerge
    \/ HMutate
    \/ HLoad

SpecHeap == HInit /\ [][HNext]_vars

---------------------------------------------------------------------------
(* Vocabulary of the claims *)

InSeq(q, e) == \E i \in DOMAIN q : q[i] = e

\* The type's zero value of the field key k names
ZeroOf(k) == Get(ZeroConfig, k)

\* The messages Validate has for the field key k names
MsgsOf(k) ==
    CASE k = "service.timeout"            -> {"timeout must be between 1 and 60 seconds"}
      [] k = "service.retry_attempts"     -> {"retry_attempts must be between 1 and 10"}
      [] k = "service.socket_path"        -> {"socket_path must not be empty",
                                              "socket_path must be an absolute path"}
      [] k = "logging.level"              -> {"log_level must be DEBUG, INFO, WARN, or ERROR"}
      [] k = "logging.format"             -> {"log_format must be 'json' or 'text'"}
      [] k = "audio.enabled"              -> {}
      [] k = "audio.volume"               -> {"audio_volume must be between 0 and 100"}
      [] k = "audio.custom_sound_success" -> {"custom_sound_success file not found"}
      [] k = "audio.custom_sound_failure" -> {"custom_sound_failure file not found"}
      [] k = "security.liveness_required" -> {}
      [] k = "security.match_threshold"   -> {"match_threshold must be between 0.0 and 1.0"}
      [] k = "security.max_auth_attempts" -> {"max_auth_attempts must be between 1 and 20"}
      [] k = "security.lockout_duration"  -> {"lockout_duration must be between 0 and 3600"}

\* The section a message belongs to: Service 1, Logging 2, Audio 3, Security 4
SectionOf(e) ==
    IF e \in MsgsOf("service.timeout") \cup MsgsOf("service.retry_attempts")
             \cup MsgsOf("service.socket_path") THEN 1
    ELSE IF e \in MsgsOf("logging.level") \cup MsgsOf("logging.format") THEN 2
    ELSE IF e \in MsgsOf("audio.volume") \cup MsgsOf("audio.custom_sound_success")
                  \cup MsgsOf("audio.custom_sound_failure") THEN 3
    ELSE 4

\* c with every field but the one k names replaced by a valid value
Isolate(c, k) == Unmarshal((k :> Get(c, k)), SpecDefaults)

\* The domain constraints of the data model, levels and formats compared
\* ignoring case
DomainOK(c) ==
    /\ 1 <= c.Service.Timeout /\ c.Service.Timeout <= 60
    /\ 1 <= c.Service.RetryAttempts /\ c.Service.RetryAttempts <= 10
    /\ c.Service.SocketPath # EmptyStr /\ Head(c.Service.SocketPath) = "/"
    /\ \E l \in {S_DEBUG, S_INFO, S_WARN, S_ERROR} : ToUpper(c.Logging.Level) = l
    /\ \E f \in {S_json, S_text} : ToLower(c.Logging.Format) = f
    /\ 0 <= c.Audio.Volume /\ c.Audio.Volume <= 100
    /\ FLe(F(0), c.Security.MatchThreshold) /\ FLe(c.Security.MatchThreshold, F(100))
    /\ 1 <= c.Security.MaxAuthAttempts /\ c.Security.MaxAuthAttempts <= 20
    /\ 0 <= c.Security.LockoutDuration /\ c.Security.LockoutDuration <= 3600

\* The domain constraints and the existence of the custom sound files
SpecValid(c, ex) ==
    /\ DomainOK(c)
    /\ c.Audio.CustomSoundSuccess = EmptyStr \/ c.Audio.CustomSoundSuccess \in ex
    /\ c.Audio.CustomSoundFailure = EmptyStr \/ c.Audio.CustomSoundFailure \in ex

Done(o) == pc = "done" /\ op = o

---------------------------------------------------------------------------
(* The claims *)

\* C1: Validate applied to the configuration that DefaultConfig() returns
\* succeeds: it finds no violation.
C1_DefaultsValid ==
    (ucall = "Validate" /\ ua = DefaultConfig) => uerrs = <<>>

\* C2: Load() run when neither the system file nor the user file exists returns,
\* without error, a Configuration equal in every field to the built-in defaults
\* (format text among them).
C2_LoadNoFilesGivesDefaults ==
    (Done("Load") /\ sysFile.kind = "ENOENT" /\ userFile.kind = "ENOENT" /\ homeOK)
        => (err = <<>> /\ ret = <<SpecDefaults>>)

\* C3: every run of Load and of LoadFromPath ends with exactly one of a
\* Configuration or an error, and a returned Configuration satisfies all the
\* domain constraints.
C3_ValidatedOrError ==
    pc = "done" =>
        /\ (ret = <<>>) # (err = <<>>)
        /\ ret # <<>> => DomainOK(ret[1])

\* C4: mergeConfigs follows the per-field policy, for every field independently:
\* a string, integer or float field takes the override's value when that value
\* is not the zero value and keeps the base's otherwise; a boolean field takes
\* the override's value when it differs from the base's and keeps the base's
\* otherwise.
C4_MergePolicy ==
    ucall \in {"mergeConfigs", "MergeFile"} =>
        \A k \in Keys :
            IF k \in BoolKeys
            THEN Get(ures, k) = (IF Get(ub, k) # Get(ua, k) THEN Get(ub, k) ELSE Get(ua, k))
            ELSE Get(ures, k) = (IF Get(ub, k) = ZeroOf(k) THEN Get(ua, k) ELSE Get(ub, k))

C4_Witness ==
    /\ ucall = "mergeConfigs"
    /\ ua = DefaultConfig
    /\ ub.Service.Timeout = 20 /\ ures.Service.Timeout = 20
    /\ ub.Audio.Volume = 0 /\ ures.Audio.Volume = 50
    /\ ub.Audio.Enabled = FALSE /\ ures.Audio.Enabled = FALSE

\* C5: for every base and each boolean field, merging an override file that
\* does not mention the field gives the same result as merging the file that
\* sets the field to the base's value, and leaves the base's value in place.
C5_OmittedBoolKeepsBase ==
    ucall = "MergeFile" =>
        \A b \in BoolKeys \ DOMAIN udoc :
            /\ ures = MergeConfigs(ua, Unmarshal((b :> Get(ua, b)) @@ udoc, ZeroConfig))
            /\ Get(ures, b) = Get(ua, b)

\* C6: Validate runs every check whatever the earlier checks found: a field's
\* violation is reported exactly when it is reported for that field alone, each
\* at most once, and the entries come in the order Service, Logging, Audio,
\* Security.
C6_AggregateValidation ==
    ucall = "Validate" =>
        /\ \A k \in Keys :
              SelectSeq(uerrs, LAMBDA e : e \in MsgsOf(k)) = Validate(Isolate(ua, k), exists)
        /\ \A i, j \in DOMAIN uerrs :
              i < j => (uerrs[i] # uerrs[j] /\ SectionOf(uerrs[i]) <= SectionOf(uerrs[j]))

C6_Witness ==
    /\ ucall = "Validate"
    /\ ua.Service.Timeout = 0 /\ ua.Audio.Volume = 150
    /\ uerrs = <<"timeout must be between 1 and 60 seconds",
                 "audio_volume must be between 0 and 100">>

\* C7: Validate returns success if and only if every constraint holds: the
\* ranges, the socket path, the level and the format ignoring case, each custom
\* sound path empty or an existing file, 0.0 <= matchThreshold <= 1.0.
C7_ValidateIffConstraints ==
    ucall = "Validate" => ((uerrs = <<>>) <=> SpecValid(ua, exists))

\* C8: LoadFromPath on a file that sets only security.match_threshold to 1.5
\* fails validation and reports exactly one violation, that of match_threshold.
C8_OnlyThresholdReported ==
    (Done("LoadFromPath") /\ InSeq(log, "Validate")
       /\ pathFile = File("ok", ("security.match_threshold" :> F(150))))
        => /\ ret = <<>>
           /\ err = <<"configuration validation failed",
                      "match_threshold must be between 0.0 and 1.0">>

\* C9: Load runs its stages in the order Defaults, system overlay, user overlay,
\* Validate and then ends; a read or parse failure of an overlay file ends the
\* run in Failure at once with no Configuration; and an overlay stage is skipped
\* without error only when its file does not exist.
C9_Pipeline ==
    op = "Load" =>
        /\ \A i, j \in DOMAIN log :
              (i < j) => <<log[i], log[j]>> \in
                  ({"Defaults"} \X {"SystemOverlay", "SystemSkipped", "UserOverlay",
                                    "UserSkipped", "Validate", "Success", "Failure"})
                  \cup ({"SystemOverlay", "SystemSkipped"}
                          \X {"UserOverlay", "UserSkipped", "Validate", "Success", "Failure"})
                  \cup ({"UserOverlay", "UserSkipped"} \X {"Validate", "Success", "Failure"})
                  \cup ({"Validate"} \X {"Success", "Failure"})
        /\ (pc # "system" /\ sysFile.kind \in {"unreadable", "malformed"})
              => (log = <<"Defaults", "SystemOverlay", "Failure">> /\ ret = <<>> /\ err # <<>>)
        /\ (pc \notin {"system", "user"} /\ InSeq(log, "UserOverlay")
              /\ userFile.kind \in {"unreadable", "malformed"})
              => (log[Len(log)] = "Failure" /\ log[Len(log) - 1] = "UserOverlay"
                  /\ ret = <<>> /\ err # <<>>)
        /\ InSeq(log, "SystemSkipped") => sysFile.kind = "ENOENT"
        /\ InSeq(log, "UserSkipped") => userFile.kind = "ENOENT"

\* C10: round trip: for every valid Configuration, writing its values into a
\* document and loading the document through the File Loader and the Merger over
\* the defaults reproduces the original value of every non-boolean field, the
\* fields whose value is the zero value included.
C10_RoundTripAll ==
    (ucall = "RoundTrip" /\ SpecValid(ua, exists)) =>
        \A k \in Keys \ BoolKeys : Get(ures, k) = Get(ua, k)

\* C10 as amended: the round trip reproduces every non-boolean field whose value
\* is not the zero value; a field whose value is the zero value comes back with
\* the value the defaults give it.
C10_RoundTripNonZero ==
    (ucall = "RoundTrip" /\ SpecValid(ua, exists)) =>
        \A k \in Keys \ BoolKeys :
            Get(ures, k) = (IF Get(ua, k) # ZeroOf(k) THEN Get(ua, k)
                            ELSE Get(DefaultConfig, k))

C10_Witness ==
    /\ ucall = "RoundTrip" /\ SpecValid(ua, exists)
    /\ ua.Audio.Volume = 75 /\ ures.Audio.Volume = 75
    /\ ua.Security.LockoutDuration = 0 /\ ures.Security.LockoutDuration = 300

\* The value a document sets key k to, when it mentions k with a value that is
\* not the zero value
SetsNonZero(doc, k) == k \in DOMAIN doc /\ doc[k] # ZeroOf(k)

\* C11: when Load finds both the system file and the user file, every
\* non-boolean field of the merged Configuration is the user file's value if the
\* user file sets it non-zero, otherwise the system file's value if the system
\* file sets it non-zero, otherwise the built-in default; the defaults are
\* taken once and the overlays are folded system first, then user; the
\* Configuration returned on success is that merged Configuration.
C11_UserOverSystem ==
    (op = "Load" /\ sysFile.kind = "ok" /\ userFile.kind = "ok"
       /\ (pc = "validate" \/ InSeq(log, "Validate"))) =>
        /\ \A k \in Keys \ BoolKeys :
              Get(cfg, k) = (IF SetsNonZero(userFile.doc, k) THEN userFile.doc[k]
                             ELSE IF SetsNonZero(sysFile.doc, k) THEN sysFile.doc[k]
                             ELSE Get(DefaultConfig, k))
        /\ SubSeq(log, 1, 3) = <<"Defaults", "SystemOverlay", "UserOverlay">>
        /\ Cardinality({i \in DOMAIN log : log[i] = "Defaults"}) = 1
        /\ ret # <<>> => ret = <<cfg>>

C11_Witness ==
    /\ Done("Load")
    /\ sysFile = File("ok", ("logging.format" :> S_text))
    /\ userFile = File("ok", ("logging.format" :> S_JSON))
    /\ ret # <<>>
    /\ ret[1].Logging.Format = S_JSON
    /\ ret[1].Service.Timeout = 10

\* C12: mergeConfigs leaves the objects its arguments point to as they were and
\* returns a pointer to a new object, whatever is done to the result later; and
\* each Load builds a new Configuration: a Configuration Load returned stays as
\* it was returned through every later call, failed or not.
C12_InputsUntouched ==
    /\ hcall.kind = "merge" =>
          /\ heap[hcall.base] = hcall.baseBefore
          /\ heap[hcall.over] = hcall.overBefore
          /\ hcall.res > hcall.lenBefore
    /\ \A i \in DOMAIN hrets :
          /\ heap[hrets[i].addr] = hrets[i].val
          /\ \A j \in DOMAIN hrets : i # j => hrets[i].addr # hrets[j].addr

C12_Witness ==
    /\ hlog = <<"Load ok", "merge", "mutate", "Load failed">>
    /\ hcall.base = hrets[1].addr
    /\ heap[hcall.res] # MergeConfigs(hcall.baseBefore, hcall.overBefore)

\* C13: for every file F that can be read and parsed, LoadFromPath on F has the
\* same outcome as validating the merge of the decoded F over the defaults,
\* which is what Load does with F as its only overlay: the same Configuration,
\* or failure in the same cases.
C13_SingleFileAsLayered ==
    (Done("LoadFromPath") /\ InSeq(log, "FileOverlay") /\ pathFile.kind = "ok") =>
        LET m == MergeConfigs(DefaultConfig, loadFromPath(pathFile, ZeroConfig).cfg)
        IN  IF Validate(m, exists) = <<>> THEN ret = <<m>> ELSE ret = <<>>


====
